---- MODULE Spec2Model ----
(***************************************************************************)
(* Model of classes_pbi_api.py: the PBIManager client of the Power BI REST *)
(* API.  The object's fields are the state; the identity provider, the     *)
(* REST API and the file system are the environment, whose answers are the *)
(* inputs of each method.  Every method is one action; the I/O it performs *)
(* is recorded, in order, in `trace`, and its outcome in `call`.           *)
(***************************************************************************)
EXTENDS Integers, Sequences, FiniteSets, TLC

VARIABLES tenant_id, client_id, client_secret, scope, authority, access_token,
          files, trace, call

vars == <<tenant_id, client_id, client_secret, scope, authority, access_token,
          files, trace, call>>

credentials == <<tenant_id, client_id, client_secret, scope, authority>>

(***************************************************************************)
(* Bounds and input domains                                                *)
(***************************************************************************)
\* longest list the API returns in one "value" page
MaxItems == 2

Tenants == {"t1"}
Workspaces == {"w1"}
Datasets == {"d1"}
\* output directories handed to get_documentation: one exists, one does not
Directories == {"out", "missing_dir"}
Statuses == {200, 201, 202, 204, 400, 401}

\* Python's None where a string is expected
None == "<None>"

\* variant: only None counts as false
Truthy_not_none(v) == v # None

\* Python truthiness of a str-or-None value: `if x:` / `if not x:`
Truthy(v) == v # None /\ v # ""

\* dict.get(key) and dict.get(key, default) on a JSON object (a record)
Get(d, k) == IF k \in DOMAIN d THEN d[k] ELSE None
GetOr(d, k, default) == IF k \in DOMAIN d THEN d[k] ELSE default

\* all sequences over S of length at most n
RECURSIVE SeqsUpTo(_, _)
SeqsUpTo(S, n) ==
    IF n = 0 THEN {<<>>}
    ELSE LET shorter == SeqsUpTo(S, n - 1)
         IN  shorter \cup {Append(s, x) : s \in {t \in shorter : Len(t) = n - 1}, x \in S}

\* body of a non-success response
ErrorBody == [text |-> "error"]

(***************************************************************************)
(* Exceptions the methods raise, by their message or Python type           *)
(***************************************************************************)
NoException == "none"
NoAccessToken == "No access token, call get_token()"
TokenFailed == "Failed to retrieve the token"
ApiFailed == "Error: status_code - text"
KeyError == "KeyError"
IndexError == "IndexError"
FileNotFoundError == "FileNotFoundError"
\* raised by the openpyxl writer when it saves a workbook that holds no sheet
NoVisibleSheet == "IndexError: At least one sheet must be visible"

\* outcome of a method call
Outcome(op, args, raised, status, returned) ==
    [op |-> op, args |-> args, raised |-> raised, status |-> status, returned |-> returned]

\* one requests.get / requests.post with the Authorization header built from the
\* token; body is <<>> when the request carries none, else <<the JSON sent>>
Http(method, url, body, resp) ==
    [kind |-> "http", method |-> method, url |-> url, bearer |-> access_token,
     body |-> body, status |-> resp.status_code, json |-> resp.json]

(***************************************************************************)
(* __init__                                                                *)
(***************************************************************************)
Construct(t, c, s, sc) ==
    /\ tenant_id' = t
    /\ client_id' = c
    /\ client_secret' = s
    /\ scope' = <<sc>>
    /\ access_token' = None
    /\ authority' = <<"https://login.microsoftonline.com", t>>
    /\ trace' = <<>>
    /\ call' = Outcome("__init__", <<t, c, s, sc>>, NoException, 0, <<>>)
    /\ UNCHANGED files

\* a path at which no file has been written
NoFile == [exists |-> FALSE, sheets |-> <<>>]

Init ==
    /\ tenant_id \in Tenants
    /\ client_id = "c1"
    /\ client_secret = "s1"
    /\ scope = <<"sc1">>
    /\ access_token = None
    /\ authority = <<"https://login.microsoftonline.com", tenant_id>>
    /\ files = [p \in {"out"} \X Datasets |-> NoFile]
    /\ trace = <<>>
    /\ call = Outcome("__init__", <<tenant_id, "c1", "s1", "sc1">>, NoException, 0, <<>>)

(***************************************************************************)
(* get_token                                                               *)
(***************************************************************************)
\* what acquire_token_for_client may return
TokenResponses ==
    { [access_token |-> "tokA"],
      [access_token |-> ""],
      [error |-> "invalid_client"] }

get_token(token_response) ==
    LET token == Get(token_response, "access_token")
    IN  /\ access_token' = token
        /\ trace' = <<[kind |-> "token", authority |-> authority, client_id |-> client_id,
                       client_credential |-> client_secret, scopes |-> scope,
                       response |-> token_response]>>
        /\ call' = Outcome("get_token", <<>>,
                           IF ~Truthy(token) THEN TokenFailed ELSE NoException, 0, <<>>)
        /\ UNCHANGED <<credentials, files>>

(***************************************************************************)
(* get_list_of_datasets, get_list_of_reports                               *)
(***************************************************************************)
\* objects of a "value" list; fields may be missing
ListItems ==
    { [id |-> "x1", name |-> "Sales", extra |-> "e"],
      [id |-> "x2"] }

ListResponses ==
    {[status_code |-> 200, json |-> [value |-> v]] : v \in SeqsUpTo(ListItems, MaxItems)}
    \cup {[status_code |-> 200, json |-> [odata |-> "ctx"]]}
    \cup {[status_code |-> s, json |-> ErrorBody] : s \in Statuses \ {200}}

\* pd.DataFrame(items, columns=['id', 'name'])
IdNameFrame(items) ==
    [i \in 1..Len(items) |-> [id |-> Get(items[i], "id"), name |-> Get(items[i], "name")]]

\* variant: the request is sent without looking at the token
ListCollection_unchecked(op, workspace_id, collection, response) ==
    /\ trace' = <<Http("GET", <<"groups", workspace_id, collection>>, <<>>, response)>>
    /\ call' = IF response.status_code = 200
               THEN Outcome(op, <<workspace_id>>, NoException, 0,
                            IdNameFrame(GetOr(response.json, "value", <<>>)))
               ELSE Outcome(op, <<workspace_id>>, ApiFailed, response.status_code, <<>>)
    /\ UNCHANGED <<credentials, access_token, files>>

ListCollection(op, workspace_id, collection, response) ==
    IF access_token = None
    THEN /\ trace' = <<>>
         /\ call' = Outcome(op, <<workspace_id>>, NoAccessToken, 0, <<>>)
         /\ UNCHANGED <<credentials, access_token, files>>
    ELSE /\ trace' = <<Http("GET", <<"groups", workspace_id, collection>>, <<>>, response)>>
         /\ call' = IF response.status_code = 200
                    THEN Outcome(op, <<workspace_id>>, NoException, 0,
                                 IdNameFrame(GetOr(response.json, "value", <<>>)))
                    ELSE Outcome(op, <<workspace_id>>, ApiFailed, response.status_code, <<>>)
         /\ UNCHANGED <<credentials, access_token, files>>

get_list_of_datasets(workspace_id, response) ==
    ListCollection("get_list_of_datasets", workspace_id, "datasets", response)

get_list_of_reports(workspace_id, response) ==
    ListCollection("get_list_of_reports", workspace_id, "reports", response)

(***************************************************************************)
(* get_reports_with_datasets                                               *)
(***************************************************************************)
\* report objects of the reports endpoint: with a dataset id, without the key,
\* and with an empty one
ReportItems ==
    { [id |-> "r1", name |-> "Report 1", datasetId |-> "d1"],
      [id |-> "r2", name |-> "Report 2"],
      [id |-> "r3", name |-> "Report 3", datasetId |-> ""],
      [id |-> "r4", name |-> "Report 4", datasetId |-> "d2"] }

\* answers the dataset-detail endpoint may give for a dataset
LookupResponses(dataset_id) ==
    IF dataset_id = "d1"
    THEN { [status_code |-> 200, json |-> [id |-> "d1", name |-> "Sales"]],
           [status_code |-> 202, json |-> [id |-> "d1", name |-> "Sales"]],
           [status_code |-> 400, json |-> ErrorBody] }
    ELSE { [status_code |-> 200, json |-> [id |-> dataset_id, name |-> "Stock"]] }

\* placeholder for the answer to a request that is never sent
NoResponse == [status_code |-> 0, json |-> ErrorBody]

\* a returned report together with the answer its dataset lookup would get
ReportCases ==
    {c \in ReportItems \X (UNION {LookupResponses(d) : d \in {"d1", "d2"}} \cup {NoResponse}) :
        IF Get(c[1], "datasetId") \notin {None, ""}
        THEN c[2] \in LookupResponses(c[1].datasetId)
        ELSE c[2] = NoResponse}

\* variant: the name is read from any answer, whatever its status
DatasetName_any_status(dataset_id, dataset_response) ==
    IF Truthy(dataset_id) THEN Get(dataset_response.json, "name") ELSE None

\* dataset_name of one report: None unless the lookup was made and answered 200
DatasetName(dataset_id, dataset_response) ==
    IF Truthy(dataset_id) /\ dataset_response.status_code = 200
    THEN Get(dataset_response.json, "name")
    ELSE None

\* the body of `for report in reports`, from the i-th report on; acc holds the
\* requests sent and report_list built so far
RECURSIVE ReportLoop(_, _, _, _, _)
ReportLoop(workspace_id, reports, lookups, i, acc) ==
    IF i > Len(reports) THEN acc
    ELSE LET report == reports[i]
             report_id == Get(report, "id")
             report_name == Get(report, "name")
             dataset_id == Get(report, "datasetId")
             dataset_response == lookups[i]
             dataset_name == DatasetName(dataset_id, dataset_response)
         IN  ReportLoop(workspace_id, reports, lookups, i + 1,
                 [trace |-> IF Truthy(dataset_id)
                            THEN Append(acc.trace,
                                        Http("GET", <<"groups", workspace_id, "datasets", dataset_id>>,
                                             <<>>, dataset_response))
                            ELSE acc.trace,
                  report_list |-> Append(acc.report_list,
                                         [report_id |-> report_id, report_name |-> report_name,
                                          dataset_id |-> dataset_id, dataset_name |-> dataset_name])])

get_reports_with_datasets(workspace_id, response, lookups) ==
    IF access_token = None
    THEN /\ trace' = <<>>
         /\ call' = Outcome("get_reports_with_datasets", <<workspace_id>>, NoAccessToken, 0, <<>>)
         /\ UNCHANGED <<credentials, access_token, files>>
    ELSE LET primary == Http("GET", <<"groups", workspace_id, "reports">>, <<>>, response)
             reports == GetOr(response.json, "value", <<>>)
             done == ReportLoop(workspace_id, reports, lookups, 1,
                                [trace |-> <<primary>>, report_list |-> <<>>])
         IN  IF response.status_code = 200
             THEN /\ trace' = done.trace
                  /\ call' = Outcome("get_reports_with_datasets", <<workspace_id>>,
                                     NoException, 0, done.report_list)
                  /\ UNCHANGED <<credentials, access_token, files>>
             ELSE /\ trace' = <<primary>>
                  /\ call' = Outcome("get_reports_with_datasets", <<workspace_id>>,
                                     ApiFailed, response.status_code, <<>>)
                  /\ UNCHANGED <<credentials, access_token, files>>

\* the environments of one get_reports_with_datasets call: the primary answer and
\* the answers to the lookups, one per returned report
ReportsEnvironments ==
    {[response |-> [status_code |-> 200,
                    json |-> [value |-> [i \in 1..Len(cs) |-> cs[i][1]]]],
      lookups |-> [i \in 1..Len(cs) |-> cs[i][2]]] : cs \in SeqsUpTo(ReportCases, MaxItems)}
    \cup {[response |-> [status_code |-> 200, json |-> [odata |-> "ctx"]], lookups |-> <<>>]}
    \cup {[response |-> [status_code |-> s, json |-> ErrorBody], lookups |-> <<>>] :
            s \in Statuses \ {200}}

(***************************************************************************)
(* execute_query                                                           *)
(***************************************************************************)
Queries == {<<"EVALUATE", "Sales">>}

row1 == [a |-> 1]
row2 == [a |-> 2]
RowLists == {<<>>, <<row1>>, <<row1, row2>>, <<row2, row1>>}

\* JSON payloads of the executeQueries endpoint, well-formed and not
QueryPayloads ==
    {[results |-> <<[tables |-> <<[rows |-> rows]>>]>>] : rows \in RowLists}
    \cup { [results |-> <<[tables |-> <<[rows |-> <<row1>>], [rows |-> <<row2>>]>>],
                          [tables |-> <<[rows |-> <<row2, row1>>]>>]>>],
           [error |-> "bad"],
           [results |-> <<>>],
           [results |-> <<[error |-> "bad"]>>],
           [results |-> <<[tables |-> <<>>]>>],
           [results |-> <<[tables |-> <<[columns |-> <<"a">>]>>]>>] }

QueryResponses ==
    {[status_code |-> 200, json |-> j] : j \in QueryPayloads}
    \cup {[status_code |-> s, json |-> ErrorBody] : s \in Statuses \ {200}}

\* variant: a missing key or an empty list yields an empty frame instead of raising
ResultRows_lenient(result_json) ==
    IF /\ "results" \in DOMAIN result_json
       /\ Len(result_json.results) > 0
       /\ "tables" \in DOMAIN result_json.results[1]
       /\ Len(result_json.results[1].tables) > 0
       /\ "rows" \in DOMAIN result_json.results[1].tables[1]
    THEN [raised |-> NoException, data |-> result_json.results[1].tables[1].rows]
    ELSE [raised |-> NoException, data |-> <<>>]

\* result_json['results'][0]['tables'][0]['rows'], with the exception a failing
\* subscript raises
ResultRows(result_json) ==
    IF "results" \notin DOMAIN result_json THEN [raised |-> KeyError, data |-> <<>>]
    ELSE IF Len(result_json.results) = 0 THEN [raised |-> IndexError, data |-> <<>>]
    ELSE IF "tables" \notin DOMAIN result_json.results[1] THEN [raised |-> KeyError, data |-> <<>>]
    ELSE IF Len(result_json.results[1].tables) = 0 THEN [raised |-> IndexError, data |-> <<>>]
    ELSE IF "rows" \notin DOMAIN result_json.results[1].tables[1]
         THEN [raised |-> KeyError, data |-> <<>>]
    ELSE [raised |-> NoException, data |-> result_json.results[1].tables[1].rows]

\* the method as a function of the server's answer: the requests it sends, what it
\* raises and what it returns
ExecuteQuery(query_input, dataset_id, response) ==
    IF access_token = None
    THEN [trace |-> <<>>, raised |-> NoAccessToken, status |-> 0, returned |-> <<>>]
    ELSE LET sent == Http("POST", <<"datasets", dataset_id, "executeQueries">>,
                          <<[queries |-> <<[query |-> query_input]>>]>>, response)
             rows == ResultRows(response.json)
         IN  IF response.status_code = 200
             THEN [trace |-> <<sent>>, raised |-> rows.raised, status |-> 0,
                   returned |-> rows.data]
             ELSE [trace |-> <<sent>>, raised |-> ApiFailed,
                   status |-> response.status_code, returned |-> <<>>]

\* variant: an authorization failure drops the stored token
execute_query_drop_token(query_input, dataset_id, response) ==
    LET q == ExecuteQuery(query_input, dataset_id, response)
    IN  /\ trace' = q.trace
        /\ call' = Outcome("execute_query", <<query_input, dataset_id>>,
                           q.raised, q.status, q.returned)
        /\ access_token' = IF q.status = 401 THEN None ELSE access_token
        /\ UNCHANGED <<credentials, files>>

execute_query(query_input, dataset_id, response) ==
    LET q == ExecuteQuery(query_input, dataset_id, response)
    IN  /\ trace' = q.trace
        /\ call' = Outcome("execute_query", <<query_input, dataset_id>>,
                           q.raised, q.status, q.returned)
        /\ UNCHANGED <<credentials, access_token, files>>

(***************************************************************************)
(* get_documentation                                                       *)
(***************************************************************************)
doc_var_list == <<"columns", "tables", "measures", "relations">>

\* f"EVALUATE Info_{word}"
query_word(word) == <<"EVALUATE", "Info_", word>>

\* os.path.join(path_to_save, f"Documentation_{dataset_id}.xlsx")
file_path(path_to_save, dataset_id) == <<path_to_save, dataset_id>>

DocAnswers ==
    { [status_code |-> 200, json |-> [results |-> <<[tables |-> <<[rows |-> <<row1>>]>>]>>]],
      [status_code |-> 200, json |-> [results |-> <<[error |-> "bad"]>>]],
      [status_code |-> 400, json |-> ErrorBody] }

\* the answers to the four queries of one get_documentation call: a query after a
\* failed one is never sent and has no answer
DocResponses ==
    {rs \in [1..Len(doc_var_list) -> DocAnswers \cup {NoResponse}] :
        \A i \in 1..Len(doc_var_list) :
            rs[i] = NoResponse <=>
                \E j \in 1..(i - 1) :
                    \/ rs[j].status_code # 200
                    \/ ResultRows(rs[j].json).raised # NoException}

\* the body of `for word in doc_var_list`, from the i-th word on; acc holds the I/O
\* done and the sheets handed to the writer so far
RECURSIVE DocLoop(_, _, _, _)
DocLoop(dataset_id, responses, i, acc) ==
    IF i > Len(doc_var_list) THEN acc
    ELSE LET word == doc_var_list[i]
             df == ExecuteQuery(query_word(word), dataset_id, responses[i])
         IN  IF df.raised # NoException
             THEN [acc EXCEPT !.trace = acc.trace \o df.trace,
                              !.raised = df.raised, !.status = df.status]
             ELSE DocLoop(dataset_id, responses, i + 1,
                     [acc EXCEPT !.trace = acc.trace \o df.trace
                                     \o <<[kind |-> "to_excel", sheet_name |-> word,
                                           rows |-> df.returned]>>,
                                 !.sheets = Append(acc.sheets,
                                     [sheet_name |-> word, rows |-> df.returned])])

\* save_ok is the writer's answer to saving a workbook without sheets
get_documentation(dataset_id, path_to_save, responses, save_ok) ==
    IF access_token = None
    THEN /\ trace' = <<>>
         /\ call' = Outcome("get_documentation", <<dataset_id, path_to_save>>,
                            NoAccessToken, 0, <<>>)
         /\ UNCHANGED <<credentials, access_token, files>>
    ELSE IF file_path(path_to_save, dataset_id) \notin DOMAIN files
    THEN \* the writer cannot open the file: the directory does not exist
         /\ trace' = <<[kind |-> "open", path |-> file_path(path_to_save, dataset_id),
                        opened |-> FALSE]>>
         /\ call' = Outcome("get_documentation", <<dataset_id, path_to_save>>,
                            FileNotFoundError, 0, <<>>)
         /\ UNCHANGED <<credentials, access_token, files>>
    ELSE LET path == file_path(path_to_save, dataset_id)
             opened == [kind |-> "open", path |-> path, opened |-> TRUE]
             done == DocLoop(dataset_id, responses, 1,
                             [trace |-> <<opened>>, sheets |-> <<>>,
                              raised |-> NoException, status |-> 0])
             \* the writer refuses to save a workbook without sheets, and the
             \* exception of __exit__ replaces the one that was leaving the block
             save_raises == done.sheets = <<>> /\ ~save_ok
         IN  \* leaving the `with` block, normally or by an exception, closes the
             \* writer, which saves the sheets written so far to the opened file
             /\ trace' = Append(done.trace, [kind |-> "close", path |-> path,
                                             saved |-> ~save_raises])
             /\ files' = [files EXCEPT ![path] = [exists |-> TRUE, sheets |-> done.sheets]]
             /\ call' = IF save_raises
                        THEN Outcome("get_documentation", <<dataset_id, path_to_save>>,
                                     NoVisibleSheet, 0, <<>>)
                        ELSE Outcome("get_documentation", <<dataset_id, path_to_save>>,
                                     done.raised, done.status, <<>>)
             /\ UNCHANGED <<credentials, access_token>>

(***************************************************************************)
(* refresh_dataset                                                         *)
(***************************************************************************)
RefreshResponses == {[status_code |-> s, json |-> ErrorBody] : s \in Statuses}

\* variant: any 2xx status counts as success
refresh_dataset_any_2xx(workspace_id, dataset_id, response) ==
    IF access_token = None
    THEN /\ trace' = <<>>
         /\ call' = Outcome("refresh_dataset", <<workspace_id, dataset_id>>,
                            NoAccessToken, 0, <<>>)
         /\ UNCHANGED <<credentials, access_token, files>>
    ELSE /\ trace' = <<Http("POST", <<"groups", workspace_id, "datasets", dataset_id, "refreshes">>,
                            <<>>, response)>>
         /\ call' = IF response.status_code \in 200..299
                    THEN Outcome("refresh_dataset", <<workspace_id, dataset_id>>,
                                 NoException, 0, <<>>)
                    ELSE Outcome("refresh_dataset", <<workspace_id, dataset_id>>,
                                 ApiFailed, response.status_code, <<>>)
         /\ UNCHANGED <<credentials, access_token, files>>

refresh_dataset(workspace_id, dataset_id, response) ==
    IF access_token = None
    THEN /\ trace' = <<>>
         /\ call' = Outcome("refresh_dataset", <<workspace_id, dataset_id>>,
                            NoAccessToken, 0, <<>>)
         /\ UNCHANGED <<credentials, access_token, files>>
    ELSE /\ trace' = <<Http("POST", <<"groups", workspace_id, "datasets", dataset_id, "refreshes">>,
                            <<>>, response)>>
         /\ call' = IF response.status_code = 202
                    THEN Outcome("refresh_dataset", <<workspace_id, dataset_id>>,
                                 NoException, 0, <<>>)
                    ELSE Outcome("refresh_dataset", <<workspace_id, dataset_id>>,
                                 ApiFailed, response.status_code, <<>>)
         /\ UNCHANGED <<credentials, access_token, files>>

(***************************************************************************)
(* Specification                                                           *)
(***************************************************************************)
Next ==
    \/ \E t \in Tenants : Construct(t, "c1", "s1", "sc1")
    \/ \E r \in TokenResponses : get_token(r)
    \/ \E w \in Workspaces, r \in ListResponses : get_list_of_datasets(w, r)
    \/ \E w \in Workspaces, r \in ListResponses : get_list_of_reports(w, r)
    \/ \E w \in Workspaces, e \in ReportsEnvironments :
          get_reports_with_datasets(w, e.response, e.lookups)
    \/ \E q \in Queries, d \in Datasets, r \in QueryResponses : execute_query(q, d, r)
    \/ \E d \in Datasets, p \in Directories, rs \in DocResponses, ok \in BOOLEAN :
          get_documentation(d, p, rs, ok)
    \/ \E w \in Workspaces, d \in Datasets, r \in RefreshResponses : refresh_dataset(w, d, r)

Spec == Init /\ [][Next]_vars

(***************************************************************************)
(* Properties                                                              *)
(***************************************************************************)
\* the methods that need a token
AuthOps == {"get_list_of_datasets", "get_list_of_reports", "get_reports_with_datasets",
            "execute_query", "get_documentation", "refresh_dataset"}

IsHttp(e) == e.kind = "http"
IsQueryOrSheet(e) == e.kind \in {"http", "to_excel"}
NonEmpty(v) == v \notin {None, ""}

\* the errors of the specification's taxonomy, as the code raises them
NotAuthenticatedError == NoAccessToken
AuthenticationError == TokenFailed
ApiError == ApiFailed
QueryResultShapeError == {KeyError, IndexError}

\* C1: a method that needs a token, called while the token is absent, fails with
\* NotAuthenticatedError having sent no request and having created or opened no file.
C1_NoTokenNoIO ==
    [][(access_token = None /\ call'.op \in AuthOps) =>
          /\ call'.raised = NotAuthenticatedError
          /\ trace' = <<>>
          /\ files' = files]_vars

C1_Witness ==
    /\ call.op = "get_documentation"
    /\ call.raised = NotAuthenticatedError
    /\ access_token = None
    /\ \A p \in DOMAIN files : ~files[p].exists

\* C2: every request sent to the analytics API carries a token that is present and
\* non-empty; with an absent or empty token nothing is sent.
C2_SendsOnlyWithToken ==
    \A i \in DOMAIN trace : IsHttp(trace[i]) => NonEmpty(trace[i].bearer)

\* position, among the lookups of a call, of the lookup made for the i-th report
C3_LookupIndex(reports, i) ==
    Cardinality({j \in 1..i : NonEmpty(Get(reports[j], "datasetId"))})

\* C3: get_reports_with_datasets fails with ApiError exactly when the primary reports
\* request is answered with a status other than 200; a report whose lookup is answered
\* with another status keeps its record with dataset_name absent, and every other
\* looked-up report carries the name its own lookup returned.
C3_SecondaryFailuresDegrade ==
    (call.op = "get_reports_with_datasets" /\ trace # <<>>) =>
        LET reports == GetOr(trace[1].json, "value", <<>>)
        IN  /\ call.raised \in {NoException, ApiError}
            /\ call.raised = ApiError <=> trace[1].status # 200
            /\ trace[1].status = 200 =>
                 /\ Len(call.returned) = Len(reports)
                 /\ Len(trace) = 1 + C3_LookupIndex(reports, Len(reports))
                 /\ \A i \in 1..Len(reports) :
                      NonEmpty(Get(reports[i], "datasetId")) =>
                          LET lookup == trace[1 + C3_LookupIndex(reports, i)]
                          IN  call.returned[i].dataset_name =
                                  IF lookup.status = 200 THEN Get(lookup.json, "name") ELSE None

C3_Witness ==
    /\ call.op = "get_reports_with_datasets"
    /\ call.raised = NoException
    /\ Len(trace) = 3
    /\ trace[2].status # 200
    /\ trace[3].status = 200
    /\ call.returned[1].dataset_name = None
    /\ call.returned[2].dataset_name = "Stock"

\* the one status each endpoint answers on success
C4_SuccessStatus(op) == IF op = "refresh_dataset" THEN 202 ELSE 200

\* C4: refresh_dataset succeeds exactly when the status is 202; the two listings, the
\* primary request of get_reports_with_datasets and execute_query succeed only when
\* it is 200; any other status raises ApiError carrying that status.
C4_ExactStatus ==
    (/\ call.op \in AuthOps \ {"get_documentation"}
     /\ trace # <<>>) =>
        /\ trace[1].status # C4_SuccessStatus(call.op) =>
               call.raised = ApiError /\ call.status = trace[1].status
        /\ call.raised = NoException => trace[1].status = C4_SuccessStatus(call.op)
        /\ call.op = "refresh_dataset" => (call.raised = NoException <=> trace[1].status = 202)

C4_Witness ==
    /\ call.op = "refresh_dataset"
    /\ trace # <<>>
    /\ trace[1].status = 200
    /\ call.raised = ApiError
    /\ call.status = 200

\* the payload holds results[0].tables[0].rows
C5_WellShaped(json) ==
    /\ "results" \in DOMAIN json
    /\ Len(json.results) > 0
    /\ "tables" \in DOMAIN json.results[1]
    /\ Len(json.results[1].tables) > 0
    /\ "rows" \in DOMAIN json.results[1].tables[1]

\* C5: execute_query answered with status 200 returns the rows at
\* results[0].tables[0].rows in their order; when that path is missing it raises
\* QueryResultShapeError, which is not ApiError, and returns nothing.
C5_RowsOrShapeError ==
    (call.op = "execute_query" /\ trace # <<>> /\ trace[1].status = 200) =>
        IF C5_WellShaped(trace[1].json)
        THEN /\ call.raised = NoException
             /\ call.returned = trace[1].json.results[1].tables[1].rows
        ELSE /\ call.raised \in QueryResultShapeError
             /\ call.raised # ApiError
             /\ call.returned = <<>>

C5_Witness ==
    /\ call.op = "execute_query"
    /\ trace # <<>>
    /\ trace[1].status = 200
    /\ "results" \in DOMAIN trace[1].json
    /\ Len(trace[1].json.results) > 0
    /\ "tables" \notin DOMAIN trace[1].json.results[1]
    /\ call.raised = KeyError

\* the sheets of the documentation file, and the query sent for each
C6_Order == <<"columns", "tables", "measures", "relations">>

C6_QueryFor(word) == <<[queries |-> <<[query |-> <<"EVALUATE", "Info_", word>>]>>]>>

C6_Failed(e) == e.status # 200 \/ ~C5_WellShaped(e.json)

\* the order of requests and sheets, and the number of requests
C6_RequestsAndSheets ==
    call.op = "get_documentation" =>
        LET io == SelectSeq(trace, IsQueryOrSheet)
            reqs == SelectSeq(trace, IsHttp)
            n == Len(reqs)
            path == file_path(call.args[2], call.args[1])
        IN  /\ n <= 4
            /\ Len(io) <= 8
            /\ \A p \in 1..Len(io) :
                 IF p % 2 = 1
                 THEN /\ io[p].kind = "http"
                      /\ io[p].url = <<"datasets", call.args[1], "executeQueries">>
                      /\ io[p].body = C6_QueryFor(C6_Order[(p + 1) \div 2])
                 ELSE /\ io[p].kind = "to_excel"
                      /\ io[p].sheet_name = C6_Order[p \div 2]
                      /\ ~C6_Failed(io[p - 1])
            /\ call.raised = NoException =>
                 /\ n = 4
                 /\ Len(io) = 8
                 /\ Len(files[path].sheets) = 4
                 /\ \A k \in 1..4 : files[path].sheets[k].sheet_name = C6_Order[k]
            /\ call.raised \in {NotAuthenticatedError, FileNotFoundError} => n = 0
            /\ call.raised \notin {NoException, NotAuthenticatedError, FileNotFoundError} =>
                 /\ n >= 1
                 /\ Len(io) = 2 * n - 1
                 /\ C6_Failed(reqs[n])

\* the call fails with the error of the query that failed
C6_FailsWithQueryError ==
    (/\ call.op = "get_documentation"
     /\ NonEmpty(access_token)
     /\ call.raised \notin {NoException, NotAuthenticatedError, FileNotFoundError}) =>
        LET reqs == SelectSeq(trace, IsHttp)
            failed == reqs[Len(reqs)]
        IN  IF failed.status # 200
            THEN call.raised = ApiError /\ call.status = failed.status
            ELSE call.raised \in QueryResultShapeError

\* C6: the queries of one get_documentation call are a prefix of columns, tables,
\* measures, relations; each sheet is written after its own query succeeded and before
\* the next query; on success there are four queries and four sheets in that order; when
\* the k-th query fails exactly k queries were sent and the call raises that query's error.
C6_QueriesInOrder == C6_RequestsAndSheets /\ C6_FailsWithQueryError

\* C7: when one of the four queries fails, no output file written by the call remains
\* at the output path; a file is there after the call only if all four succeeded.
C7_AllOrNothing ==
    (/\ call.op = "get_documentation"
     /\ NonEmpty(access_token)
     /\ \E i \in DOMAIN trace : trace[i].kind = "close") =>
        (files[file_path(call.args[2], call.args[1])].exists => call.raised = NoException)

\* the report carries a dataset id
C8_HasDataset(report) == NonEmpty(Get(report, "datasetId"))

\* C8: a get_reports_with_datasets call whose primary request succeeds sends 1 + R
\* requests, R the number of returned reports with a non-empty dataset id: the reports
\* request, then one lookup per such report in report order; it returns one record per
\* report in the order of the response.  When the primary request fails it sends 1.
C8_OnePlusR ==
    (call.op = "get_reports_with_datasets" /\ trace # <<>>) =>
        LET workspace_id == call.args[1]
            reports == GetOr(trace[1].json, "value", <<>>)
            looked == SelectSeq(reports, C8_HasDataset)
        IN  /\ trace[1].method = "GET"
            /\ trace[1].url = <<"groups", workspace_id, "reports">>
            /\ \A i \in DOMAIN trace : IsHttp(trace[i])
            /\ IF trace[1].status # 200
               THEN Len(trace) = 1
               ELSE /\ Len(trace) = 1 + Len(looked)
                    /\ \A k \in 1..Len(looked) :
                         /\ trace[1 + k].method = "GET"
                         /\ trace[1 + k].url =
                                <<"groups", workspace_id, "datasets", looked[k].datasetId>>
                    /\ Len(call.returned) = Len(reports)
                    /\ \A i \in 1..Len(reports) :
                         /\ call.returned[i].report_id = Get(reports[i], "id")
                         /\ call.returned[i].report_name = Get(reports[i], "name")
                         /\ call.returned[i].dataset_id = Get(reports[i], "datasetId")

C8_Witness ==
    /\ call.op = "get_reports_with_datasets"
    /\ call.raised = NoException
    /\ Len(call.returned) = 2
    /\ call.returned[1].dataset_id = ""
    /\ call.returned[2].dataset_id = "d2"
    /\ Len(trace) = 2

\* C9: only get_token writes the token: __init__ leaves it absent and does no I/O, no
\* method that needs a token changes it or asks the identity provider for one, whatever
\* the API answers; no method changes the credentials.
C9_TokenOnlyByGetToken ==
    [][/\ call'.op \in AuthOps =>
            /\ access_token' = access_token
            /\ \A i \in DOMAIN trace' : trace'[i].kind # "token"
       /\ call'.op = "__init__" => (access_token' = None /\ trace' = <<>>)
       /\ call'.op # "__init__" => credentials' = credentials]_vars

C9_Witness ==
    /\ call.op = "execute_query"
    /\ trace # <<>>
    /\ trace[1].status = 401
    /\ call.raised = ApiError
    /\ access_token = "tokA"

\* C10: a get_token call that fails with AuthenticationError leaves the token field as
\* it was before the call.
C10_FailedFetchKeepsToken ==
    [][(call'.op = "get_token" /\ call'.raised = AuthenticationError) =>
          access_token' = access_token]_vars

====
